---- MODULE Spec2Model ----
(***************************************************************************)
(* Persistence layer of the visionboard desktop application                *)
(* (src-tauri/src/lib.rs): canvas documents, the canvas tree and uploaded  *)
(* images, each kept as a file under <app data>/storage.                   *)
(*                                                                         *)
(* The file system is the only state the commands share.  A command is one *)
(* action; its return value is recorded in ret, and the ghost variables    *)
(* last and lastTree remember the last store write made to each file.      *)
(* The last part of the state machine runs the commands that make more     *)
(* than one step (a read or a check, then a write) on two threads, one     *)
(* file-system call at a time; flight holds what each thread is doing.     *)
(***************************************************************************)
EXTENDS Integers, Sequences, FiniteSets, TLC

VARIABLES started, now, canvases, tree, images, last, lastTree, ret, flight

vars == <<started, now, canvases, tree, images, last, lastTree, ret, flight>>

(***************************************************************************)
(* Bounds                                                                  *)
(***************************************************************************)
\* chrono::Utc::now() takes the values 0..MaxClock
MaxClock == 1
\* uploaded file names are strings of at most MaxNameLen characters
MaxNameLen == 3

Clock == 0..MaxClock

(***************************************************************************)
(* Values                                                                  *)
(***************************************************************************)
\* Option<String>
None == <<>>
Some(s) == <<s>>

\* Uuid::new_v4(): the values the generator can hand out.  Two v4 UUIDs are
\* taken never to coincide (122 random bits), see FreshCanvasIds/FreshImageIds.
Uuids == {"u1", "u2"}

\* the ids the front-end passes to get_canvas / update_canvas / delete_canvas
CanvasIds == {"main"} \cup Uuids

\* DateTime<Utc>::to_rfc3339 of the instant t
to_rfc3339(t) == "2026-01-01T00:00:0" \o ToString(t) \o "+00:00"

\* struct ViewBox, the default of create_canvas and init_default_canvas
DefaultViewBox == [x |-> 0, y |-> 0, width |-> 1920, height |-> 1080]

\* serde_json::json!([])
EmptyElements == <<>>

(***************************************************************************)
(* JSON texts.  A text is either not JSON at all (NotJson), or a JSON      *)
(* value; an object is the function from its keys to its members' values.  *)
(***************************************************************************)
NotJson == [type |-> "invalid"]
JsonNumber == [type |-> "number"]
JsonObject(f) == [type |-> "object", fields |-> f]
JsonNull == <<>>
JsonString(s) == <<s>>

\* a file that does not exist / a file holding text
NoFile == [exists |-> FALSE]
File(text) == [exists |-> TRUE, text |-> text]

\* Result<T, String>
Ok(v) == [ok |-> TRUE, val |-> v]
Err(msg) == [ok |-> FALSE, err |-> msg]

\* serde: #[derive(Serialize)] for ViewBox
ViewBoxToJson(v) == JsonObject([x |-> v.x, y |-> v.y, width |-> v.width, height |-> v.height])

\* serde: #[derive(Deserialize)] for ViewBox: all four members are required
ViewBoxFromJson(j) ==
    IF j.type = "object" /\ {"x", "y", "width", "height"} \subseteq DOMAIN j.fields
    THEN Ok([x |-> j.fields.x, y |-> j.fields.y,
             width |-> j.fields.width, height |-> j.fields.height])
    ELSE Err("invalid type or missing field")

\* faulty variant: the rename of parent_id is missing on the writing side
CanvasToJson_NoRename(c) ==
    JsonObject([version   |-> c.version,
                id        |-> c.id,
                name      |-> c.name,
                parent_id |-> IF c.parent_id = None THEN JsonNull ELSE JsonString(c.parent_id[1]),
                created   |-> c.created,
                modified  |-> c.modified,
                viewBox   |-> ViewBoxToJson(c.view_box),
                elements  |-> c.elements])

\* serde_json::to_string_pretty(&canvas): parent_id and view_box are renamed,
\* None is written as null
CanvasToJson(c) ==
    JsonObject([version  |-> c.version,
                id       |-> c.id,
                name     |-> c.name,
                parentId |-> IF c.parent_id = None THEN JsonNull ELSE JsonString(c.parent_id[1]),
                created  |-> c.created,
                modified |-> c.modified,
                viewBox  |-> ViewBoxToJson(c.view_box),
                elements |-> c.elements])

\* serde_json::from_str::<Canvas> / from_value::<Canvas>: every member but
\* parentId is required (a missing Option member is None), unknown members
\* are dropped
CanvasFromJson(j) ==
    IF j.type # "object" THEN Err("invalid type")
    ELSE LET f == j.fields IN
         IF ~({"version", "id", "name", "created", "modified", "viewBox", "elements"}
                  \subseteq DOMAIN f)
         THEN Err("missing field")
         ELSE LET vb == ViewBoxFromJson(f.viewBox) IN
              IF ~vb.ok THEN vb
              ELSE Ok([version   |-> f.version,
                       id        |-> f.id,
                       name      |-> f.name,
                       parent_id |-> IF "parentId" \in DOMAIN f /\ f.parentId # JsonNull
                                     THEN Some(f.parentId[1]) ELSE None,
                       created   |-> f.created,
                       modified  |-> f.modified,
                       view_box  |-> vb.val,
                       elements  |-> f.elements])

(***************************************************************************)
(* Inputs of the commands and files found in the storage root at start     *)
(***************************************************************************)
\* a timestamp text that no clock reading of this run produces
OldTime == "2020-05-05T05:05:05+00:00"

\* a document written before the version member was filled in
LegacyCanvas(id) ==
    JsonObject([version  |-> "",
                id       |-> id,
                name     |-> "Old Board",
                parentId |-> JsonNull,
                created  |-> OldTime,
                modified |-> OldTime,
                viewBox  |-> ViewBoxToJson([x |-> 5, y |-> 5, width |-> 640, height |-> 480]),
                elements |-> <<"image">>])

\* a document with no version member at all
UnversionedCanvas(id) ==
    JsonObject([id       |-> id,
                name     |-> "Older Board",
                created  |-> OldTime,
                modified |-> OldTime,
                viewBox  |-> ViewBoxToJson(DefaultViewBox),
                elements |-> EmptyElements])

\* canvases/ as the process can find it when it starts
CanvasDir(m, u) == [id \in CanvasIds |-> IF id = "main" THEN m ELSE IF id = "u1" THEN u ELSE NoFile]
InitialCanvasDirs ==
    { CanvasDir(NoFile, NoFile),
      CanvasDir(NoFile, File(LegacyCanvas("u1"))),
      CanvasDir(File(LegacyCanvas("main")), File(NotJson)),
      CanvasDir(File(LegacyCanvas("main")), File(UnversionedCanvas("u1"))) }

\* create_canvas arguments <<name, parent_id>>: each Option absent and present
CreateArgs == {<<None, None>>, <<Some("Sketch A"), Some("main")>>}

\* update_canvas bodies (canvas_data: serde_json::Value)
\* empty version, no parentId member, an unknown member, id "main"
BodyA ==
    JsonObject([version  |-> "",
                id       |-> "main",
                name     |-> "Renamed",
                created  |-> OldTime,
                modified |-> "yesterday",
                viewBox  |-> ViewBoxToJson([x |-> 10, y |-> 20, width |-> 800, height |-> 600]),
                elements |-> <<"rect">>,
                zoom     |-> "2x"])
\* a version other than the current one, id "u1"
BodyB ==
    JsonObject([version  |-> "2.0.0",
                id       |-> "u1",
                name     |-> "Sketch B",
                parentId |-> JsonString("main"),
                created  |-> to_rfc3339(0),
                modified |-> to_rfc3339(0),
                viewBox  |-> ViewBoxToJson(DefaultViewBox),
                elements |-> EmptyElements])
\* no elements member
BodyNoElements ==
    JsonObject([version  |-> "1.0.0",
                id       |-> "u2",
                name     |-> "Broken",
                parentId |-> JsonNull,
                created  |-> OldTime,
                modified |-> OldTime,
                viewBox  |-> ViewBoxToJson(DefaultViewBox)])
\* a viewBox without height
BodyBadViewBox ==
    JsonObject([version  |-> "1.0.0",
                id       |-> "u2",
                name     |-> "Broken",
                created  |-> OldTime,
                modified |-> OldTime,
                viewBox  |-> JsonObject([x |-> 0, y |-> 0, width |-> 1]),
                elements |-> EmptyElements])

WellFormedBodies == {BodyA, BodyB}
Bodies == WellFormedBodies \cup {BodyNoElements, BodyBadViewBox, JsonNumber}

(***************************************************************************)
(* Canvas Store                                                            *)
(***************************************************************************)
\* faulty variant: the write is refused when the file is there already
WriteCanvasFile_CreateNew(files, id, canvas) ==
    IF files[id].exists THEN files ELSE [files EXCEPT ![id] = File(CanvasToJson(canvas))]

\* fs::write(path, content) on canvases/<id>.json
WriteCanvasFile(files, id, canvas) == [files EXCEPT ![id] = File(CanvasToJson(canvas))]

\* faulty variant: the migration stamps the time and forgets the version
MigratedCanvas_NoVersion(canvas, t) ==
    [canvas EXCEPT !.modified = to_rfc3339(t)]

\* get_canvas, lines 104-108: the migration of a document with no version
MigratedCanvas(canvas, t) ==
    [canvas EXCEPT !.version = "1.0.0", !.modified = to_rfc3339(t)]

\* faulty variant: a file that does not parse is removed
get_canvas_DropMalformed(files, id, t) ==
    LET content == files[id] IN
    IF ~content.exists
    THEN [res |-> Err("Canvas not found"), files |-> files, wrote |-> FALSE]
    ELSE LET parsed == CanvasFromJson(content.text) IN
         IF ~parsed.ok
         THEN [res |-> Err("Failed to parse canvas"),
               files |-> [files EXCEPT ![id] = NoFile], wrote |-> FALSE]
         ELSE IF parsed.val.version = ""
              THEN LET canvas == MigratedCanvas(parsed.val, t) IN
                   [res |-> Ok(canvas), files |-> WriteCanvasFile(files, id, canvas),
                    wrote |-> TRUE]
              ELSE [res |-> Ok(parsed.val), files |-> files, wrote |-> FALSE]

\* get_canvas: the result, the files afterwards, and whether it wrote
get_canvas(files, id, t) ==
    LET content == files[id] IN
    IF ~content.exists
    THEN [res |-> Err("Canvas not found"), files |-> files, wrote |-> FALSE]
    ELSE LET parsed == CanvasFromJson(content.text) IN
         IF ~parsed.ok
         THEN [res |-> Err("Failed to parse canvas"), files |-> files, wrote |-> FALSE]
         ELSE IF parsed.val.version = ""
              THEN LET canvas == MigratedCanvas(parsed.val, t) IN
                   [res |-> Ok(canvas), files |-> WriteCanvasFile(files, id, canvas),
                    wrote |-> TRUE]
              ELSE [res |-> Ok(parsed.val), files |-> files, wrote |-> FALSE]

\* Uuid::new_v4() in create_canvas: a v4 UUID equal to the id of a stored
\* canvas is taken not to happen
FreshCanvasIds(files) == {u \in Uuids : ~files[u].exists}

\* faulty variant: the new canvas takes the id of the root canvas
NewCanvas_RootId(id, name, parent_id, t1, t2) ==
    [version   |-> "1.0.0",
     id        |-> "main",
     name      |-> IF name = None THEN "New Canvas" ELSE name[1],
     parent_id |-> parent_id,
     created   |-> to_rfc3339(t1),
     modified  |-> to_rfc3339(t2),
     view_box  |-> DefaultViewBox,
     elements  |-> EmptyElements]

\* create_canvas, lines 123-137: t1 and t2 are the two readings of the clock
NewCanvas(id, name, parent_id, t1, t2) ==
    [version   |-> "1.0.0",
     id        |-> id,
     name      |-> IF name = None THEN "New Canvas" ELSE name[1],
     parent_id |-> parent_id,
     created   |-> to_rfc3339(t1),
     modified  |-> to_rfc3339(t2),
     view_box  |-> DefaultViewBox,
     elements  |-> EmptyElements]

\* faulty variant: modified is left as the caller sent it
UpdatedCanvas_KeepModified(canvas, t) ==
    [canvas EXCEPT !.version = IF canvas.version = "" THEN "1.0.0" ELSE canvas.version]

\* faulty variant: an empty version is written back as it came
UpdatedCanvas_NoVersionFill(canvas, t) ==
    [canvas EXCEPT !.modified = to_rfc3339(t)]

\* update_canvas, lines 158-161
UpdatedCanvas(canvas, t) ==
    [canvas EXCEPT !.modified = to_rfc3339(t),
                   !.version = IF canvas.version = "" THEN "1.0.0" ELSE canvas.version]

\* faulty variant: the update is a patch that keeps created of the stored document
update_canvas_KeepCreated(files, id, canvas_data, t) ==
    LET parsed == CanvasFromJson(canvas_data) IN
    IF ~parsed.ok
    THEN [res |-> Err("Failed to parse canvas data"), files |-> files]
    ELSE LET old == IF files[id].exists THEN CanvasFromJson(files[id].text) ELSE Err("absent")
             canvas == [UpdatedCanvas(parsed.val, t) EXCEPT
                           !.created = IF old.ok THEN old.val.created ELSE @] IN
         [res |-> Ok(canvas), files |-> WriteCanvasFile(files, id, canvas)]

\* faulty variant: an update of an id that has no file is refused
update_canvas_MustExist(files, id, canvas_data, t) ==
    LET parsed == CanvasFromJson(canvas_data) IN
    IF ~files[id].exists
    THEN [res |-> Err("Canvas not found"), files |-> files]
    ELSE IF ~parsed.ok
    THEN [res |-> Err("Failed to parse canvas data"), files |-> files]
    ELSE LET canvas == UpdatedCanvas(parsed.val, t) IN
         [res |-> Ok(canvas), files |-> WriteCanvasFile(files, id, canvas)]

\* update_canvas: the result and the files afterwards
update_canvas(files, id, canvas_data, t) ==
    LET parsed == CanvasFromJson(canvas_data) IN
    IF ~parsed.ok
    THEN [res |-> Err("Failed to parse canvas data"), files |-> files]
    ELSE LET canvas == UpdatedCanvas(parsed.val, t) IN
         [res |-> Ok(canvas), files |-> WriteCanvasFile(files, id, canvas)]

\* faulty variant: the file is emptied, not removed
delete_canvas_Truncate(files, id) ==
    IF files[id].exists
    THEN [res |-> Ok(TRUE), files |-> [files EXCEPT ![id] = File(NotJson)]]
    ELSE [res |-> Err("Canvas not found"), files |-> files]

\* faulty variant: a missing file is reported as false, not as an error
delete_canvas_FalseOnMissing(files, id) ==
    IF files[id].exists
    THEN [res |-> Ok(TRUE), files |-> [files EXCEPT ![id] = NoFile]]
    ELSE [res |-> Ok(FALSE), files |-> files]

\* delete_canvas: fs::remove_file, any failure reported as "Canvas not found"
delete_canvas(files, id) ==
    IF files[id].exists
    THEN [res |-> Ok(TRUE), files |-> [files EXCEPT ![id] = NoFile]]
    ELSE [res |-> Err("Canvas not found"), files |-> files]

\* init_default_canvas, lines 274-288
DefaultCanvas(t1, t2) ==
    [version   |-> "1.0.0",
     id        |-> "main",
     name      |-> "Main Canvas",
     parent_id |-> None,
     created   |-> to_rfc3339(t1),
     modified  |-> to_rfc3339(t2),
     view_box  |-> DefaultViewBox,
     elements  |-> EmptyElements]

\* faulty variant: the default canvas is written at every start
init_default_canvas_Always(files, t1, t2) ==
    [files |-> WriteCanvasFile(files, "main", DefaultCanvas(t1, t2)), wrote |-> TRUE]

\* init_default_canvas: writes main.json only when it does not exist
init_default_canvas(files, t1, t2) ==
    IF ~files["main"].exists
    THEN [files |-> WriteCanvasFile(files, "main", DefaultCanvas(t1, t2)), wrote |-> TRUE]
    ELSE [files |-> files, wrote |-> FALSE]

\* two consecutive readings of chrono::Utc::now(): the second is not earlier
SecondReading(t) == {t2 \in Clock : t <= t2 /\ t2 <= t + 1}

(***************************************************************************)
(* Tree Store                                                              *)
(***************************************************************************)
\* serde: #[derive(Serialize)] for TreeNode
TreeNodeToJson(n) ==
    JsonObject([name     |-> n.name,
                children |-> n.children,
                parent   |-> IF n.parent = None THEN JsonNull ELSE JsonString(n.parent[1])])

\* serde_json::to_string_pretty(&tree): root_canvases is renamed, the map
\* becomes an object with one member per key
TreeToJson(t) ==
    JsonObject([rootCanvases |-> t.root_canvases,
                canvases     |-> JsonObject([k \in DOMAIN t.canvases |->
                                                 TreeNodeToJson(t.canvases[k])])])

\* serde: #[derive(Deserialize)] for TreeNode: name and children are required
TreeNodeFromJson(j) ==
    IF j.type = "object" /\ {"name", "children"} \subseteq DOMAIN j.fields
    THEN Ok([name     |-> j.fields.name,
             children |-> j.fields.children,
             parent   |-> IF "parent" \in DOMAIN j.fields /\ j.fields.parent # JsonNull
                          THEN Some(j.fields.parent[1]) ELSE None])
    ELSE Err("invalid type or missing field")

\* serde_json::from_str::<TreeStructure>
TreeFromJson(j) ==
    IF j.type # "object" THEN Err("invalid type")
    ELSE LET f == j.fields IN
         IF ~({"rootCanvases", "canvases"} \subseteq DOMAIN f) THEN Err("missing field")
         ELSE IF f.canvases.type # "object" THEN Err("invalid type")
         ELSE LET nodes == f.canvases.fields IN
              IF \E k \in DOMAIN nodes : ~TreeNodeFromJson(nodes[k]).ok
              THEN Err("invalid type or missing field")
              ELSE Ok([root_canvases |-> f.rootCanvases,
                       canvases      |-> [k \in DOMAIN nodes |-> TreeNodeFromJson(nodes[k]).val]])

\* get_tree, lines 189-200
DefaultTree ==
    [root_canvases |-> <<"main">>,
     canvases      |-> [k \in {"main"} |->
                            [name |-> "Main Canvas", children |-> <<>>, parent |-> None]]]

\* faulty variant: the default tree is returned and not persisted
get_tree_NoPersist(file) ==
    IF ~file.exists
    THEN [res |-> Ok(DefaultTree), file |-> file, wrote |-> FALSE]
    ELSE LET parsed == TreeFromJson(file.text) IN
         IF ~parsed.ok
         THEN [res |-> Err("Failed to parse tree"), file |-> file, wrote |-> FALSE]
         ELSE [res |-> parsed, file |-> file, wrote |-> FALSE]

\* get_tree: the result, the tree file afterwards, and whether it wrote
get_tree(file) ==
    IF ~file.exists
    THEN [res |-> Ok(DefaultTree), file |-> File(TreeToJson(DefaultTree)), wrote |-> TRUE]
    ELSE LET parsed == TreeFromJson(file.text) IN
         IF ~parsed.ok
         THEN [res |-> Err("Failed to parse tree"), file |-> file, wrote |-> FALSE]
         ELSE [res |-> parsed, file |-> file, wrote |-> FALSE]

\* faulty variant: nodes of the stored tree that tree_data omits are kept
update_tree_Merge(file, tree_data) ==
    LET old == IF file.exists THEN TreeFromJson(file.text) ELSE Err("absent")
        keys == DOMAIN tree_data.canvases \cup (IF old.ok THEN DOMAIN old.val.canvases ELSE {})
        merged == [tree_data EXCEPT !.canvases =
                      [k \in keys |-> IF k \in DOMAIN tree_data.canvases
                                      THEN tree_data.canvases[k] ELSE old.val.canvases[k]]] IN
    [res |-> Ok(tree_data), file |-> File(TreeToJson(merged))]

\* update_tree: the result and the tree file afterwards
update_tree(file, tree_data) ==
    [res |-> Ok(tree_data), file |-> File(TreeToJson(tree_data))]

\* update_tree arguments (tree_data: TreeStructure)
TreeEmpty == [root_canvases |-> <<>>, canvases |-> <<>>]
TreeTwo ==
    [root_canvases |-> <<"main">>,
     canvases |-> [k \in {"main", "u1"} |->
                     IF k = "main"
                     THEN [name |-> "Main Canvas", children |-> <<"u1">>, parent |-> None]
                     ELSE [name |-> "Sketch A", children |-> <<>>, parent |-> Some("main")]]]
TreeOrphan ==
    [root_canvases |-> <<"u2", "u1">>,
     canvases |-> [k \in {"u2"} |->
                     [name |-> "Loose", children |-> <<"u1">>, parent |-> None]]]
Trees == {TreeEmpty, TreeTwo, TreeOrphan, DefaultTree}

\* a tree document whose only node has no parent member
OldTreeText ==
    JsonObject([rootCanvases |-> <<"main">>,
                canvases     |-> JsonObject([k \in {"main"} |->
                                    JsonObject([name |-> "Home", children |-> <<>>])])])

\* tree.json as the process can find it when it starts
InitialTreeFiles == {NoFile, File(NotJson), File(OldTreeText)}

(***************************************************************************)
(* Image Store.  A file name is the sequence of its characters; a          *)
(* generated name starts with the UUID, kept as one element.               *)
(***************************************************************************)
Chars == {"a", ".", "/"}

RECURSIVE StringsUpTo(_)
StringsUpTo(n) ==
    IF n = 0 THEN {<<>>}
    ELSE LET shorter == StringsUpTo(n - 1) IN
         shorter \cup {Append(s, c) : s \in {x \in shorter : Len(x) = n - 1}, c \in Chars}

\* save_image / get_image_path arguments
FileNames == StringsUpTo(MaxNameLen)
Datas == {<<>>, <<7, 8>>}

\* str::split('/')
RECURSIVE Split(_, _)
Split(s, sep) ==
    IF \A i \in 1..Len(s) : s[i] # sep THEN <<s>>
    ELSE LET i == CHOOSE k \in 1..Len(s) : s[k] = sep /\ \A m \in 1..(k - 1) : s[m] # sep IN
         <<SubSeq(s, 1, i - 1)>> \o Split(SubSeq(s, i + 1, Len(s)), sep)

\* the components of a path that Path::components() does not pass over when
\* read from the back: empty ones (repeated or trailing separators) and "."
NamedComponents(path) ==
    SelectSeq(Split(path, "/"), LAMBDA seg : seg # <<>> /\ seg # <<".">>)

\* std::path::Path::file_name: the last component, when it is a normal one
file_name(path) ==
    LET comps == NamedComponents(path) IN
    IF comps = <<>> THEN None
    ELSE IF comps[Len(comps)] = <<".", ".">> THEN None
    ELSE Some(comps[Len(comps)])

\* std::path::Path::extension (rsplit_file_at_dot): the part of the file
\* name after its last '.', unless that '.' is its first character
extension(path) ==
    LET fname == file_name(path) IN
    IF fname = None THEN None
    ELSE LET f == fname[1]
             dots == {i \in 1..Len(f) : f[i] = "."} IN
         IF dots = {} THEN None
         ELSE LET d == CHOOSE i \in dots : \A k \in dots : k <= i IN
              IF d = 1 THEN None ELSE Some(SubSeq(f, d + 1, Len(f)))

\* save_image, lines 236-239: .unwrap_or("png")
ImageExt(filename) ==
    IF extension(filename) = None THEN <<"p", "n", "g">> ELSE extension(filename)[1]

\* faulty variant: the generated name does not use the fresh UUID
NewFilename_SameBase(uuid, filename) == <<"u1", ".">> \o ImageExt(filename)

\* save_image, line 241: format!("{}.{}", Uuid::new_v4(), ext)
NewFilename(uuid, filename) == <<uuid, ".">> \o ImageExt(filename)

\* Uuid::new_v4() in save_image: a v4 UUID already naming a stored image is
\* taken not to happen
FreshImageIds(files) == {u \in Uuids : \A n \in DOMAIN files : n[1] # u}

\* fs::write(&image_path, &data)
WriteImageFile(files, name, data) ==
    [n \in DOMAIN files \cup {name} |-> IF n = name THEN data ELSE files[n]]

\* save_image, lines 247-252
UploadedFile(new_filename, filename, data) ==
    [filename      |-> new_filename,
     original_name |-> filename,
     size          |-> Len(data),
     path          |-> <<"/api/images/">> \o new_filename]

\* save_image: the result and the image files afterwards
save_image(files, filename, data, uuid) ==
    LET new_filename == NewFilename(uuid, filename) IN
    [res   |-> Ok(UploadedFile(new_filename, filename, data)),
     files |-> WriteImageFile(files, new_filename, data)]

\* the arguments of get_image_path that name a place inside images/
InsideImagesDir(filename) ==
    /\ filename = <<>> \/ filename[1] # "/"
    /\ \A i \in 1..Len(Split(filename, "/")) : Split(filename, "/")[i] # <<".", ".">>

\* get_image_path, line 260: image_path.exists(); a name made of "." and
\* separators alone is the images directory itself
ImagePathExists(files, filename) ==
    \/ filename \in DOMAIN files
    \/ filename \in FileNames /\ InsideImagesDir(filename) /\ NamedComponents(filename) = <<>>

\* get_image_path
get_image_path(files, filename) ==
    IF ~ImagePathExists(files, filename)
    THEN Err("Image not found")
    ELSE Ok(<<"<images>/">> \o filename)

\* images/ as the process finds it at its first start

InitialImageDirs == {<<>>}

(***************************************************************************)
(* The state machine                                                       *)
(***************************************************************************)
\* last[id]: the last write the store made to canvases/<id>.json
NoWrite == [op |-> "none"]

\* the threads that run commands, and a thread that runs none
Threads == {"t1", "t2"}
Idle == [pc |-> "idle"]

Init ==
    /\ started = FALSE
    /\ now = 0
    /\ canvases \in InitialCanvasDirs
    /\ tree \in InitialTreeFiles
    /\ images \in InitialImageDirs
    /\ last = [id \in CanvasIds |-> NoWrite]
    /\ lastTree = NoWrite
    /\ ret = [op |-> "none"]
    /\ flight = [th \in Threads |-> Idle]

\* the clock advances
Tick ==
    /\ now < MaxClock
    /\ now' = now + 1
    /\ UNCHANGED <<started, canvases, tree, images, last, lastTree, ret, flight>>

\* run(), lines 321-323: ensure_storage_directories and init_default_canvas,
\* at the first start and at every later start of the process
run ==
    /\ \E t2 \in SecondReading(now) :
        LET r == init_default_canvas(canvases, now, t2) IN
        /\ canvases' = r.files
        /\ now' = IF r.wrote THEN t2 ELSE now
        /\ last' = IF r.wrote
                   THEN [last EXCEPT !["main"] = [op |-> "bootstrap", doc |-> DefaultCanvas(now, t2)]]
                   ELSE last
        /\ ret' = [op |-> "run", wrote |-> r.wrote]
    /\ started' = TRUE
    /\ UNCHANGED <<tree, images, lastTree, flight>>

GetCanvas(id) ==
    /\ started
    /\ LET r == get_canvas(canvases, id, now) IN
        /\ canvases' = r.files
        /\ last' = IF r.wrote
                   THEN [last EXCEPT ![id] = [op |-> "migrate", doc |-> r.res.val]]
                   ELSE last
        /\ ret' = [op |-> "get_canvas", id |-> id, res |-> r.res, wrote |-> r.wrote]
    /\ UNCHANGED <<started, now, tree, images, lastTree, flight>>

CreateCanvas(name, parent_id) ==
    /\ started
    /\ \E id \in FreshCanvasIds(canvases), t2 \in SecondReading(now) :
        LET canvas == NewCanvas(id, name, parent_id, now, t2) IN
        /\ canvases' = WriteCanvasFile(canvases, canvas.id, canvas)
        /\ now' = t2
        /\ last' = [last EXCEPT ![canvas.id] =
                        [op |-> "create", name |-> name, parent_id |-> parent_id, doc |-> canvas]]
        /\ ret' = [op |-> "create_canvas", res |-> Ok(canvas)]
    /\ UNCHANGED <<started, tree, images, lastTree, flight>>

UpdateCanvas(id, canvas_data) ==
    /\ started
    /\ LET r == update_canvas(canvases, id, canvas_data, now) IN
        /\ canvases' = r.files
        /\ last' = IF r.res.ok
                   THEN [last EXCEPT ![id] = [op |-> "update", body |-> canvas_data,
                                              doc |-> r.res.val]]
                   ELSE last
        /\ ret' = [op |-> "update_canvas", id |-> id, existed |-> canvases[id].exists,
                   res |-> r.res, time |-> now]
    /\ UNCHANGED <<started, now, tree, images, lastTree, flight>>

\* faulty variant: a successful delete_canvas removes tree.json as well
DeleteCanvas_DropTree(id) ==
    /\ started
    /\ LET r == delete_canvas(canvases, id) IN
        /\ canvases' = r.files
        /\ tree' = IF r.res.ok THEN NoFile ELSE tree
        /\ last' = IF r.res.ok THEN [last EXCEPT ![id] = [op |-> "delete"]] ELSE last
        /\ ret' = [op |-> "delete_canvas", id |-> id, existed |-> canvases[id].exists,
                   res |-> r.res]
    /\ UNCHANGED <<started, now, images, lastTree, flight>>

DeleteCanvas(id) ==
    /\ started
    /\ LET r == delete_canvas(canvases, id) IN
        /\ canvases' = r.files
        /\ last' = IF r.res.ok THEN [last EXCEPT ![id] = [op |-> "delete"]] ELSE last
        /\ ret' = [op |-> "delete_canvas", id |-> id, existed |-> canvases[id].exists,
                   res |-> r.res]
    /\ UNCHANGED <<started, now, tree, images, lastTree, flight>>

GetTree ==
    /\ started
    /\ LET r == get_tree(tree) IN
        /\ tree' = r.file
        /\ lastTree' = IF r.wrote THEN [op |-> "init"] ELSE lastTree
        /\ ret' = [op |-> "get_tree", res |-> r.res, wrote |-> r.wrote]
    /\ UNCHANGED <<started, now, canvases, images, last, flight>>

UpdateTree(tree_data) ==
    /\ started
    /\ LET r == update_tree(tree, tree_data) IN
        /\ tree' = r.file
        /\ lastTree' = [op |-> "update", tree_data |-> tree_data, existed |-> tree.exists]
        /\ ret' = [op |-> "update_tree", tree_data |-> tree_data, res |-> r.res]
    /\ UNCHANGED <<started, now, canvases, images, last, flight>>

SaveImage(filename, data) ==
    /\ started
    /\ \E uuid \in FreshImageIds(images) :
        LET r == save_image(images, filename, data, uuid) IN
        /\ images' = r.files
        /\ ret' = [op |-> "save_image", filename |-> filename, data |-> data, res |-> r.res]
    /\ UNCHANGED <<started, now, canvases, tree, last, lastTree, flight>>

GetImagePath(filename) ==
    /\ started
    /\ ret' = [op |-> "get_image_path", filename |-> filename,
               res |-> get_image_path(images, filename)]
    /\ UNCHANGED <<started, now, canvases, tree, images, last, lastTree, flight>>

CanvasCommand ==
    \/ \E id \in CanvasIds : GetCanvas(id)
    \/ \E args \in CreateArgs : CreateCanvas(args[1], args[2])
    \/ \E id \in CanvasIds, canvas_data \in Bodies : UpdateCanvas(id, canvas_data)
    \/ \E id \in CanvasIds : DeleteCanvas(id)

TreeCommand ==
    \/ GetTree
    \/ \E tree_data \in Trees : UpdateTree(tree_data)

ImageCommand ==
    \/ \E filename \in FileNames, data \in Datas : SaveImage(filename, data)
    \/ \E filename \in FileNames \cup DOMAIN images : GetImagePath(filename)

\* the whole store
Next == run \/ Tick \/ CanvasCommand \/ TreeCommand \/ ImageCommand
Spec == Init /\ [][Next]_vars

\* the canvas store alone, over a storage root with no tree file and no image
InitCanvas == Init /\ tree = NoFile /\ images = <<>>
NextCanvas == run \/ Tick \/ CanvasCommand
SpecCanvas == InitCanvas /\ [][NextCanvas]_vars

\* the tree store alone
NextTree == run \/ TreeCommand
SpecTree == Init /\ [][NextTree]_vars

\* the image store alone, over a storage root with no canvas and no tree file
InitImage == Init /\ tree = NoFile /\ canvases = [id \in CanvasIds |-> NoFile]
NextImage == run \/ ImageCommand
SpecImage == InitImage /\ [][NextImage]_vars

\* the three stores together: every command, each with one accepted and one
\* refused input, over a storage directory that holds a legacy canvas, a
\* canvas file that is not JSON and a tree file that is absent or not JSON;
\* the process is started once and one image is uploaded
StoreBodies == {BodyB, BodyNoElements}
StoreTrees == {TreeTwo}
StoreNames == {<<"a">>, <<"a", ".", "a">>}
InitStores ==
    /\ Init
    /\ canvases = CanvasDir(File(LegacyCanvas("main")), File(NotJson))
    /\ tree \in {NoFile, File(NotJson)}
StoreIds == {"main", "u1"}
StoresCommand ==
    \/ \E id \in StoreIds : GetCanvas(id)
    \/ CreateCanvas(None, None)
    \/ \E id \in StoreIds, canvas_data \in StoreBodies : UpdateCanvas(id, canvas_data)
    \/ \E id \in StoreIds : DeleteCanvas(id)
    \/ GetTree
    \/ \E tree_data \in StoreTrees : UpdateTree(tree_data)
    \/ images = <<>> /\ SaveImage(<<"a", ".", "a">>, <<7, 8>>)
    \/ \E filename \in StoreNames \cup DOMAIN images : GetImagePath(filename)
NextStores == (~started /\ run) \/ StoresCommand
SpecStores == InitStores /\ [][NextStores]_vars

(***************************************************************************)
(* Commands on two threads.  A handler is cut at its file-system calls:    *)
(* each call (exists, read_to_string, write, remove_file) is one step, and  *)
(* what the handler holds between two steps is in flight[th].  A thread    *)
(* that has returned keeps the returned value until it runs the next       *)
(* command.                                                                *)
(***************************************************************************)
Free(th) == flight[th].pc \in {"idle", "returned"}
Returned(op, res) == [pc |-> "returned", op |-> op, res |-> res]

\* another thread is between the parse and the write of the same command on
\* the same target
Racing(th, pc, id) ==
    {o \in Threads \ {th} : flight[o].pc = pc /\ flight[o].id = id}

\* get_canvas, lines 98-107: read_to_string, parse, and for an empty version
\* the migrated document that line 112 is going to write
ReadCanvas(th, id) ==
    /\ started
    /\ Free(th)
    /\ LET content == canvases[id]
           parsed == IF content.exists THEN CanvasFromJson(content.text) ELSE Err("absent") IN
       flight' = [flight EXCEPT ![th] =
                    IF ~content.exists THEN Returned("get_canvas", Err("Canvas not found"))
                    ELSE IF ~parsed.ok THEN Returned("get_canvas", Err("Failed to parse canvas"))
                    ELSE IF parsed.val.version = ""
                         THEN [pc |-> "get_canvas:write", id |-> id,
                               canvas |-> MigratedCanvas(parsed.val, now)]
                         ELSE Returned("get_canvas", Ok(parsed.val))]
    /\ UNCHANGED <<started, now, canvases, tree, images, last, lastTree, ret>>

\* get_canvas, lines 110-116: the write of the migrated document
WriteMigrated(th) ==
    /\ flight[th].pc = "get_canvas:write"
    /\ LET id == flight[th].id
           canvas == flight[th].canvas IN
        /\ canvases' = WriteCanvasFile(canvases, id, canvas)
        /\ last' = [last EXCEPT ![id] = [op |-> "migrate", doc |-> canvas]]
        /\ flight' = [flight EXCEPT ![th] = Returned("get_canvas", Ok(canvas))]
    /\ UNCHANGED <<started, now, tree, images, lastTree, ret>>

\* update_canvas, lines 155-163: parse, stamp, serialize
ParseUpdate(th, id, canvas_data) ==
    /\ started
    /\ Free(th)
    /\ LET parsed == CanvasFromJson(canvas_data)
           racing == Racing(th, "update_canvas:write", id) IN
       flight' = [o \in Threads |->
                    IF o = th
                    THEN IF ~parsed.ok
                         THEN Returned("update_canvas", Err("Failed to parse canvas data"))
                         ELSE [pc |-> "update_canvas:write", id |-> id, body |-> canvas_data,
                               canvas |-> UpdatedCanvas(parsed.val, now), raced |-> racing # {}]
                    ELSE IF parsed.ok /\ o \in racing
                         THEN [flight[o] EXCEPT !.raced = TRUE]
                         ELSE flight[o]]
    /\ UNCHANGED <<started, now, canvases, tree, images, last, lastTree, ret>>

\* update_canvas, lines 165-168: the write
WriteUpdate(th) ==
    /\ flight[th].pc = "update_canvas:write"
    /\ LET id == flight[th].id
           canvas == flight[th].canvas IN
        /\ canvases' = WriteCanvasFile(canvases, id, canvas)
        /\ last' = [last EXCEPT ![id] = [op |-> "update", body |-> flight[th].body,
                                         doc |-> canvas, by |-> th]]
        /\ flight' = [flight EXCEPT ![th] =
                        [pc |-> "returned", op |-> "update_canvas", id |-> id,
                         res |-> Ok(canvas), raced |-> flight[th].raced]]
    /\ UNCHANGED <<started, now, tree, images, lastTree, ret>>

\* get_tree, line 186: tree_file.exists()
CheckTree(th) ==
    /\ started
    /\ Free(th)
    /\ flight' = [flight EXCEPT ![th] =
                    IF ~tree.exists THEN [pc |-> "get_tree:write"] ELSE [pc |-> "get_tree:read"]]
    /\ UNCHANGED <<started, now, canvases, tree, images, last, lastTree, ret>>

\* get_tree, lines 188-207: the write of the default tree
WriteDefaultTree(th) ==
    /\ flight[th].pc = "get_tree:write"
    /\ tree' = File(TreeToJson(DefaultTree))
    /\ lastTree' = [op |-> "init"]
    /\ flight' = [flight EXCEPT ![th] = Returned("get_tree", Ok(DefaultTree))]
    /\ UNCHANGED <<started, now, canvases, images, last, ret>>

\* get_tree, lines 210-214: read_to_string and parse; no command removes
\* tree.json, so the file that line 186 saw is still there
ReadTree(th) ==
    /\ flight[th].pc = "get_tree:read"
    /\ LET parsed == TreeFromJson(tree.text) IN
       flight' = [flight EXCEPT ![th] =
                    Returned("get_tree", IF parsed.ok THEN parsed
                                         ELSE Err("Failed to parse tree"))]
    /\ UNCHANGED <<started, now, canvases, tree, images, last, lastTree, ret>>

\* update_tree, lines 219-222: serialize
SerializeTree(th, tree_data) ==
    /\ started
    /\ Free(th)
    /\ LET racing == {o \in Threads \ {th} : flight[o].pc = "update_tree:write"} IN
       flight' = [o \in Threads |->
                    IF o = th
                    THEN [pc |-> "update_tree:write", tree_data |-> tree_data,
                          content |-> TreeToJson(tree_data), raced |-> racing # {}]
                    ELSE IF o \in racing THEN [flight[o] EXCEPT !.raced = TRUE]
                    ELSE flight[o]]
    /\ UNCHANGED <<started, now, canvases, tree, images, last, lastTree, ret>>

\* update_tree, lines 223-226: the write
WriteTree(th) ==
    /\ flight[th].pc = "update_tree:write"
    /\ tree' = File(flight[th].content)
    /\ lastTree' = [op |-> "update", tree_data |-> flight[th].tree_data,
                    existed |-> tree.exists, by |-> th]
    /\ flight' = [flight EXCEPT ![th] =
                    [pc |-> "returned", op |-> "update_tree",
                     res |-> Ok(flight[th].tree_data), raced |-> flight[th].raced]]
    /\ UNCHANGED <<started, now, canvases, images, last, ret>>

\* the canvas "main" is a legacy document and tree.json is absent when the
\* process starts; commands are accepted once run has returned
ConcIds == {"main"}
ConcTrees == {TreeTwo, TreeOrphan}
InitConc ==
    /\ Init
    /\ canvases = CanvasDir(File(LegacyCanvas("main")), File(NotJson))
    /\ tree = NoFile
ThreadStep(th) ==
    \/ \E id \in ConcIds : ReadCanvas(th, id)
    \/ WriteMigrated(th)
    \/ \E id \in ConcIds, canvas_data \in WellFormedBodies : ParseUpdate(th, id, canvas_data)
    \/ WriteUpdate(th)
    \/ CheckTree(th)
    \/ WriteDefaultTree(th)
    \/ ReadTree(th)
    \/ \E tree_data \in ConcTrees : SerializeTree(th, tree_data)
    \/ WriteTree(th)
NextConc ==
    \/ ~started /\ run
    \/ \E th \in Threads : ThreadStep(th)
    \/ \E id \in ConcIds : DeleteCanvas(id)
SpecConc == InitConc /\ [][NextConc]_vars

(***************************************************************************)
(* Claims                                                                  *)
(***************************************************************************)
\* the members of the document stored under id
Stored(files, id) == files[id].text.fields

CanvasKeys == {"version", "id", "name", "parentId", "created", "modified", "viewBox", "elements"}

\* C1: a get_canvas of an id whose last write was the create_canvas that
\* returned it succeeds and returns id = that id, version "1.0.0", the given
\* name (or "New Canvas"), the given parentId, viewBox {0,0,1920,1080}, no
\* elements, and a modified time not earlier than the one create returned.
C1_CreateThenGet ==
    (ret.op = "get_canvas" /\ last[ret.id].op = "create") =>
        LET made == last[ret.id] IN
        /\ made.doc.id = ret.id
        /\ ret.res.ok
        /\ ret.res.val.id = made.doc.id
        /\ ret.res.val.version = "1.0.0"
        /\ ret.res.val.name = (IF made.name = None THEN "New Canvas" ELSE made.name[1])
        /\ ret.res.val.parent_id = made.parent_id
        /\ ret.res.val.view_box = [x |-> 0, y |-> 0, width |-> 1920, height |-> 1080]
        /\ ret.res.val.elements = <<>>
        /\ \E t1, t2 \in Clock : /\ made.doc.modified = to_rfc3339(t1)
                                 /\ ret.res.val.modified = to_rfc3339(t2)
                                 /\ t1 <= t2

\* a canvas created with a name and a parent has been read back
C1_Witness ==
    /\ ret.op = "get_canvas"
    /\ last[ret.id].op = "create"
    /\ ret.res.ok
    /\ ret.res.val.parent_id = Some("main")
    /\ ret.res.val.name = "Sketch A"

\* C2: delete_canvas on an id whose file exists returns true and removes the
\* file; a get_canvas of an id whose last write was a delete_canvas fails with
\* "Canvas not found".
C2_DeleteThenGet ==
    /\ (ret.op = "delete_canvas" /\ ret.existed) =>
            (ret.res = Ok(TRUE) /\ ~canvases[ret.id].exists)
    /\ (ret.op = "get_canvas" /\ last[ret.id].op = "delete") =>
            ret.res = Err("Canvas not found")

\* a deleted canvas has been asked for
C2_Witness == ret.op = "get_canvas" /\ last[ret.id].op = "delete" /\ ~ret.res.ok

\* the Canvas that update_canvas is to make of a well-formed body at time t
ExpectedCanvas(body, t) ==
    LET b == body.fields IN
    [version   |-> IF b.version = "" THEN "1.0.0" ELSE b.version,
     id        |-> b.id,
     name      |-> b.name,
     parent_id |-> IF "parentId" \in DOMAIN b /\ b.parentId # JsonNull THEN b.parentId ELSE None,
     created   |-> b.created,
     modified  |-> to_rfc3339(t),
     view_box  |-> [x |-> b.viewBox.fields.x, y |-> b.viewBox.fields.y,
                    width |-> b.viewBox.fields.width, height |-> b.viewBox.fields.height],
     elements  |-> b.elements]

\* C3: update_canvas(id, body) with a well-formed body returns, and stores
\* under id, the body's document with modified set to the time of the update
\* and version set to "1.0.0" only when the body's is empty: the stored text
\* has the eight Canvas members and each comes from the body; a following
\* get_canvas(id) returns the same document.
C3_UpdateReplaces ==
    [][ /\ \A body \in WellFormedBodies :
              (ret'.op = "update_canvas" /\ UpdateCanvas(ret'.id, body)) =>
                  LET id == ret'.id
                      want == ExpectedCanvas(body, now)
                      got == Stored(canvases', id) IN
                  /\ ret'.res = Ok(want)
                  /\ canvases'[id].exists
                  /\ DOMAIN got = CanvasKeys
                  /\ got.version = want.version /\ got.id = want.id /\ got.name = want.name
                  /\ got.parentId = want.parent_id
                  /\ got.created = want.created /\ got.modified = want.modified
                  /\ got.viewBox = body.fields.viewBox
                  /\ got.elements = want.elements
        /\ (ret'.op = "get_canvas" /\ GetCanvas(ret'.id) /\ last[ret'.id].op = "update") =>
                  LET id == ret'.id IN
                  /\ ret'.res = Ok(last[id].doc)
                  /\ \E t \in Clock : last[id].doc = ExpectedCanvas(last[id].body, t)
      ]_vars

\* a canvas updated with the body that has an empty version, no parentId and
\* an unknown member has been read back
C3_Witness ==
    /\ ret.op = "get_canvas"
    /\ last[ret.id].op = "update"
    /\ last[ret.id].body = BodyA
    /\ ret.res.ok

\* C4: a get_canvas of a stored document with an empty version rewrites the
\* file with version "1.0.0" and modified = now, all else kept, and returns
\* that document; a get_canvas of an id whose last write was such a migration
\* writes nothing and returns the same document; a get_canvas of a document
\* with a non-empty version writes nothing.
C4_MigrationIdempotent ==
    [][ (ret'.op = "get_canvas" /\ GetCanvas(ret'.id)) =>
              LET id == ret'.id
                  before == IF canvases[id].exists THEN CanvasFromJson(canvases[id].text)
                            ELSE Err("absent") IN
              /\ (before.ok /\ before.val.version = "") =>
                    /\ ret'.wrote
                    /\ ret'.res = Ok([before.val EXCEPT !.version = "1.0.0",
                                                        !.modified = to_rfc3339(now)])
                    /\ canvases'[id].exists
                    /\ Stored(canvases', id).version = "1.0.0"
                    /\ Stored(canvases', id).modified = to_rfc3339(now)
                    /\ \A k \in CanvasKeys \ {"version", "modified"} :
                          Stored(canvases', id)[k] = Stored(canvases, id)[k]
                    /\ \A other \in CanvasIds \ {id} : canvases'[other] = canvases[other]
              /\ (last[id].op = "migrate") =>
                    /\ ~ret'.wrote
                    /\ canvases' = canvases
                    /\ ret'.res = Ok(last[id].doc)
              /\ (before.ok /\ before.val.version # "") =>
                    /\ ~ret'.wrote
                    /\ canvases' = canvases
      ]_vars

\* a migrated document has been read again at a later time
C4_Witness ==
    /\ ret.op = "get_canvas"
    /\ last[ret.id].op = "migrate"
    /\ ~ret.wrote
    /\ ret.res.ok
    /\ ret.res.val.modified # to_rfc3339(now)

\* C5: every document a command returns has a non-empty version, every file
\* last written by the store holds a non-empty version, and a stored document
\* with an empty version is one the store has not written.
C5_VersionNeverEmpty ==
    /\ (ret.op \in {"get_canvas", "create_canvas", "update_canvas"} /\ ret.res.ok) =>
            ret.res.val.version # ""
    /\ \A id \in CanvasIds :
          last[id].op \in {"bootstrap", "create", "update", "migrate"} =>
              /\ last[id].doc.version # ""
              /\ canvases[id].exists
              /\ Stored(canvases, id).version # ""
    /\ \A id \in CanvasIds :
          ( /\ canvases[id].exists
            /\ canvases[id].text.type = "object"
            /\ "version" \in DOMAIN Stored(canvases, id)
            /\ Stored(canvases, id).version = "" ) =>
              /\ last[id].op = "none"
              /\ ~(ret.op = "get_canvas" /\ ret.id = id /\ ret.res.ok)

\* an update whose body had an empty version has completed while another
\* file still holds a legacy document
C5_Witness ==
    /\ ret.op = "update_canvas"
    /\ ret.res.ok
    /\ last[ret.id].body.fields.version = ""
    /\ \E id \in CanvasIds : canvases[id].exists /\ canvases[id].text = LegacyCanvas(id)

\* C6: the file of a canvas created under id i by create_canvas or by
\* bootstrap holds a document whose id member is i, and a get_canvas or an
\* update_canvas of i leaves a document whose id member is i.
C6_IdImmutable ==
    [][ \A i \in CanvasIds :
          last[i].op \in {"create", "bootstrap"} =>
              /\ canvases[i].exists /\ Stored(canvases, i).id = i
              /\ (ret'.op \in {"get_canvas", "update_canvas"} /\ ret'.id = i) =>
                    (canvases'[i].exists /\ Stored(canvases', i).id = i)
      ]_vars

\* C7: update_tree(t) returns t, and a get_tree whose last tree write was
\* update_tree(t) returns exactly t and writes nothing, whether or not the
\* tree file existed before the update.
C7_UpdateTreeThenGet ==
    /\ ret.op = "update_tree" => ret.res = Ok(ret.tree_data)
    /\ (ret.op = "get_tree" /\ lastTree.op = "update") =>
            /\ ret.res = Ok(lastTree.tree_data)
            /\ ~ret.wrote

\* a tree that omits the node "main" has replaced an existing tree file and
\* has been read back
C7_Witness ==
    /\ ret.op = "get_tree"
    /\ lastTree.op = "update"
    /\ lastTree.existed
    /\ lastTree.tree_data = TreeOrphan
    /\ ret.res.ok

\* the tree t holds what the JSON text says
SameTree(t, text) ==
    /\ t.root_canvases = text.fields.rootCanvases
    /\ DOMAIN t.canvases = DOMAIN text.fields.canvases.fields
    /\ \A k \in DOMAIN t.canvases :
          LET n == text.fields.canvases.fields[k].fields IN
          /\ t.canvases[k].name = n.name
          /\ t.canvases[k].children = n.children
          /\ t.canvases[k].parent = (IF "parent" \in DOMAIN n THEN n.parent ELSE <<>>)

\* C8: get_tree with no tree file returns rootCanvases = ["main"] and the one
\* node "main" named "Main Canvas" with no children and no parent, and leaves
\* a tree file with that content; get_tree with a tree file writes nothing and
\* returns the file's content.
C8_GetTreeDefault ==
    [][ GetTree =>
          IF ~tree.exists
          THEN /\ ret'.res.ok
               /\ ret'.res.val.root_canvases = <<"main">>
               /\ DOMAIN ret'.res.val.canvases = {"main"}
               /\ ret'.res.val.canvases["main"] =
                      [name |-> "Main Canvas", children |-> <<>>, parent |-> <<>>]
               /\ tree'.exists
               /\ tree'.text.type = "object"
               /\ SameTree(ret'.res.val, tree'.text)
          ELSE /\ tree' = tree
               /\ ~ret'.wrote
               /\ tree.text.type = "object" => (ret'.res.ok /\ SameTree(ret'.res.val, tree.text))
      ]_vars

\* the default tree has been created by a get_tree
C8_Witness == ret.op = "get_tree" /\ ret.wrote /\ tree.exists /\ lastTree.op = "init"

\* s ends with suffix
EndsWith(s, suffix) ==
    /\ Len(suffix) <= Len(s)
    /\ SubSeq(s, Len(s) - Len(suffix) + 1, Len(s)) = suffix

\* C9: save_image(filename, data) returns a record whose filename ends in
\* "." and the extension of filename ("png" when it has none), whose
\* originalName is filename, whose size is the number of bytes and whose path
\* is "/api/images/" and the generated name; afterwards the image of that
\* name holds data and every image stored before is as it was.
C9_SaveImage ==
    [][ (ret'.op = "save_image" /\ SaveImage(ret'.filename, ret'.data)) =>
              LET filename == ret'.filename
                  data == ret'.data
                  rec == ret'.res.val
                  ext == IF extension(filename) = None THEN <<"p", "n", "g">>
                         ELSE extension(filename)[1] IN
              /\ ret'.res.ok
              /\ EndsWith(rec.filename, <<".">> \o ext)
              /\ rec.original_name = filename
              /\ rec.size = Cardinality(DOMAIN data)
              /\ rec.path = <<"/api/images/">> \o rec.filename
              /\ rec.filename \in DOMAIN images'
              /\ images'[rec.filename] = data
              /\ \A n \in DOMAIN images : n \in DOMAIN images' /\ images'[n] = images[n]
      ]_vars

\* a second image has been saved, under a name without extension
C9_Witness ==
    /\ ret.op = "save_image"
    /\ ret.res.ok
    /\ Cardinality(DOMAIN images) = 2
    /\ extension(ret.res.val.original_name) = None
    /\ ret.res.val.size = 2

\* C10: delete_canvas on an id with no stored file fails with "Canvas not
\* found" and changes no file; when it succeeds it returns true and has
\* removed that one file; when it fails no file has changed.
C10_DeleteOutcome ==
    [][ (ret'.op = "delete_canvas" /\ DeleteCanvas(ret'.id)) =>
              LET id == ret'.id IN
              /\ ~canvases[id].exists =>
                    /\ ret'.res = Err("Canvas not found")
                    /\ UNCHANGED <<canvases, tree, images>>
              /\ ret'.res.ok =>
                    /\ ret'.res.val = TRUE
                    /\ canvases[id].exists
                    /\ ~canvases'[id].exists
                    /\ \A other \in CanvasIds \ {id} : canvases'[other] = canvases[other]
              /\ ~ret'.res.ok => UNCHANGED <<canvases, tree, images>>
      ]_vars

\* a delete_canvas of an id with no file has failed
C10_Witness == ret.op = "delete_canvas" /\ ~ret.existed /\ ~ret.res.ok

\* C11: after a start of the process main.json exists; when it did not exist
\* before, it holds id "main", version "1.0.0", the default viewBox and no
\* elements; when it existed, no canvas file is changed by the start, whatever
\* was written to it before.
C11_Bootstrap ==
    [][ (ret'.op = "run" /\ run) =>
          /\ canvases'["main"].exists
          /\ ~canvases["main"].exists =>
                /\ ret'.wrote
                /\ canvases'["main"].text.type = "object"
                /\ DOMAIN Stored(canvases', "main") = CanvasKeys
                /\ Stored(canvases', "main").id = "main"
                /\ Stored(canvases', "main").version = "1.0.0"
                /\ Stored(canvases', "main").viewBox =
                       JsonObject([x |-> 0, y |-> 0, width |-> 1920, height |-> 1080])
                /\ Stored(canvases', "main").elements = <<>>
          /\ canvases["main"].exists => (canvases' = canvases /\ ~ret'.wrote)
          /\ \A id \in CanvasIds \ {"main"} : canvases'[id] = canvases[id]
      ]_vars

\* the process has been started again after an update of "main"
C11_Witness ==
    /\ ret.op = "run"
    /\ ~ret.wrote
    /\ last["main"].op = "update"
    /\ Stored(canvases, "main").name = "Renamed"

\* C13: every write of update_canvas and every migrating write of get_canvas
\* stores modified = the clock value that operation read, whatever modified
\* the body or the file had.
C13_ModifiedOnWrite ==
    [][ /\ (ret'.op = "update_canvas" /\ ret'.res.ok /\ canvases' # canvases) =>
              /\ Stored(canvases', ret'.id).modified = to_rfc3339(now)
              /\ ret'.res.val.modified = to_rfc3339(now)
        /\ (ret'.op = "update_canvas" /\ ret'.res.ok /\ ret' # ret) =>
              Stored(canvases', ret'.id).modified = to_rfc3339(ret'.time)
        /\ (ret'.op = "get_canvas" /\ ret'.wrote /\ canvases' # canvases) =>
              /\ Stored(canvases', ret'.id).modified = to_rfc3339(now)
              /\ ret'.res.val.modified = to_rfc3339(now)
      ]_vars

\* an update whose body carried its own modified text has been stamped with
\* a later clock value
C13_Witness ==
    /\ ret.op = "update_canvas"
    /\ ret.res.ok
    /\ last[ret.id].body.fields.modified = "yesterday"
    /\ ret.time = MaxClock
    /\ Stored(canvases, ret.id).modified = to_rfc3339(MaxClock)

\* C14: create_canvas returns an id that no canvas file had when it was
\* called, "main" included, and leaves every canvas file that existed as it
\* was.
C14_CreateNeverOverwrites ==
    [][ (ret'.op = "create_canvas" /\
         \E args \in CreateArgs : CreateCanvas(args[1], args[2])) =>
          /\ ret'.res.ok
          /\ ret'.res.val.id # "main"
          /\ ret'.res.val.id \in CanvasIds => ~canvases[ret'.res.val.id].exists
          /\ \A id \in CanvasIds : canvases[id].exists => canvases'[id] = canvases[id]
          /\ \E id \in CanvasIds : ~canvases[id].exists /\ canvases'[id].exists
      ]_vars

\* a second canvas has been created beside "main" and an earlier one
C14_Witness ==
    /\ ret.op = "create_canvas"
    /\ \A id \in CanvasIds : canvases[id].exists
    /\ last["main"].op = "bootstrap"
    /\ \E id \in Uuids : id # ret.res.val.id /\ last[id].op = "create"

\* C17: update_canvas with a well-formed body succeeds and leaves a file
\* under id also when id had no file; update_canvas never fails with "Canvas
\* not found"; a get_canvas after an update of an id whose last write was a
\* delete_canvas returns the document.
C17_UpdateCreates ==
    [][ /\ \A body \in WellFormedBodies :
              (ret'.op = "update_canvas" /\ UpdateCanvas(ret'.id, body)) =>
                  /\ ret'.res.ok
                  /\ canvases'[ret'.id].exists
                  /\ last[ret'.id].op = "delete" => last'[ret'.id].op = "update"
        /\ (ret'.op = "update_canvas" /\ ~ret'.res.ok) => ret'.res.err # "Canvas not found"
        /\ (ret'.op = "get_canvas" /\ GetCanvas(ret'.id) /\ last[ret'.id].op = "update") =>
              ret'.res = Ok(last[ret'.id].doc)
      ]_vars

\* an update of an id that had no file has succeeded
C17_Witness ==
    /\ ret.op = "update_canvas"
    /\ ~ret.existed
    /\ ret.res.ok
    /\ canvases[ret.id].exists

\* the tree document in file names id: as a root, as a key or as a child
Lists(file, id) ==
    /\ file.exists
    /\ file.text.type = "object"
    /\ LET f == file.text.fields IN
       \/ \E i \in DOMAIN f.rootCanvases : f.rootCanvases[i] = id
       \/ id \in DOMAIN f.canvases.fields
       \/ \E k \in DOMAIN f.canvases.fields :
             \E i \in DOMAIN f.canvases.fields[k].fields.children :
                 f.canvases.fields[k].fields.children[i] = id

CanvasOps == {"get_canvas", "create_canvas", "update_canvas", "delete_canvas"}
TreeOps == {"get_tree", "update_tree"}

C16_FailureChangesNothing ==
    [][ /\ (ret'.op \in CanvasOps \cup TreeOps \cup {"save_image", "get_image_path"}
            /\ ~ret'.res.ok) => UNCHANGED <<canvases, tree, images>>
        /\ (ret'.op = "get_canvas" /\ GetCanvas(ret'.id)) =>
              /\ ~canvases[ret'.id].exists => ret'.res = Err("Canvas not found")
              /\ (canvases[ret'.id].exists /\ ~CanvasFromJson(canvases[ret'.id].text).ok) =>
                    ret'.res = Err("Failed to parse canvas")
        /\ \A body \in Bodies \ WellFormedBodies :
              (ret'.op = "update_canvas" /\ UpdateCanvas(ret'.id, body)) =>
                  ret'.res = Err("Failed to parse canvas data")
        /\ (ret'.op = "delete_canvas" /\ DeleteCanvas(ret'.id) /\ ~canvases[ret'.id].exists) =>
              ret'.res = Err("Canvas not found")
        /\ (ret'.op = "get_tree" /\ GetTree /\ tree.exists /\ ~TreeFromJson(tree.text).ok) =>
              ret'.res = Err("Failed to parse tree")
        /\ (ret'.op = "get_image_path" /\ GetImagePath(ret'.filename)
            /\ ~ImagePathExists(images, ret'.filename)) =>
              ret'.res = Err("Image not found")
      ]_vars

\* get_canvas has failed on a file that is not JSON while a tree file, an
\* image file and a created canvas are stored
C16_Witness ==
    /\ ret.op = "get_canvas"
    /\ ret.res = Err("Failed to parse canvas")
    /\ canvases[ret.id] = File(NotJson)
    /\ tree.exists
    /\ images # <<>>
    /\ canvases["u2"].exists

\* both threads have returned from an update of the same target that they
\* ran at the same time
BothRaced(op) ==
    \A th \in Threads :
        /\ flight[th].pc = "returned"
        /\ flight[th].op = op
        /\ flight[th].raced

Content(file) ==
    [k \in {"name", "parentId", "created", "viewBox", "elements"} |-> file.text.fields[k]]

\* C18: once an update_canvas(id, body) has written and no later update or
\* delete of id has been made, no write of get_canvas changes the name,
\* parentId, created, viewBox or elements that the update stored, also not
\* the write of a get_canvas that read the file before the update wrote.
C18_GetKeepsContent ==
    [][ \A th \in Threads :
          (WriteMigrated(th) /\ last[flight[th].id].op = "update") =>
              LET id == flight[th].id IN
              /\ canvases'[id].exists
              /\ Content(canvases'[id]) = Content(canvases[id])
              /\ Content(canvases'[id]) = Content(File(CanvasToJson(last[id].doc)))
      ]_vars

\* C19: once an update_tree(t) has written, no get_tree replaces the stored
\* tree by the default structure, also not a get_tree that found tree.json
\* absent before the update wrote.
C19_DefaultNeverOverwrites ==
    [][ \A th \in Threads :
          (WriteDefaultTree(th) /\ lastTree.op = "update") => tree' = tree
      ]_vars
====
